---- MODULE Spec2Model ----
(***************************************************************************)
(* Model of notebooks/analysis.py: a single-pass EDA report generator.     *)
(* One process run is: load_data -> derivation of Length_of_Stay (inline   *)
(* in main) -> seven analyzers in a fixed order -> the "Done" section.     *)
(*                                                                         *)
(* Modelled state: the working directory (is there a ./notebooks, can      *)
(* reports/figs be created), the CSV input (where the file is, its         *)
(* columns and rows), the data                                             *)
(* frame df, the position of the run (pc, step), the console output, the   *)
(* files of reports/figs, the number of open matplotlib figures, the exit  *)
(* status and the exception that ended the run (if any).                   *)
(*                                                                         *)
(* Columns Patient_ID, Department, Cost and Readmission are present in     *)
(* every modelled table; Cost and Patient_ID values only change the        *)
(* numbers printed and are not represented.  A missing cell of a text      *)
(* column (NaN after read_csv) is the empty string.                        *)
(***************************************************************************)
EXTENDS Integers, Sequences, FiniteSets, TLC

VARIABLES env, csv, df, pc, step, printed, figDir, openCharts, exitCode,
          raised, runs, by_dept

vars == <<env, csv, df, pc, step, printed, figDir, openCharts, exitCode,
          raised, runs, by_dept>>

(* ---------------------------- bounds ---------------------------------- *)
\* rows of a table whose date / Length_of_Stay cells vary
MaxRowsLOS == 2
\* rows of a table whose Department / Readmission cells vary
MaxRowsReadm == 3
\* number of times the program is run on the same input
MaxRuns == 2

(* --------------------------- cell values ------------------------------ *)
\* a numeric or timestamp cell: a value, or missing (NaN / NaT)
NaN == [isna |-> TRUE, v |-> 0]
Val(n) == [isna |-> FALSE, v |-> n]

HoursPerDay == 24

\* pd.to_datetime(..., errors="coerce"): a timestamp in hours since
\* 2024-01-01 00:00, or NaT for anything that does not parse
to_datetime(s) ==
    CASE s = "2024-01-01"       -> Val(0)
      [] s = "2024-01-02 12:00" -> Val(36)
      [] s = "2024-01-05"       -> Val(96)
      [] OTHER                  -> NaN

\* variant: part days count as a whole day (rounds up)
DaysOfRoundUp(dis, adm) ==
    IF dis.isna \/ adm.isna THEN NaN
    ELSE LET h == dis.v - adm.v
         IN  Val(IF h >= 0 THEN (h + HoursPerDay - 1) \div HoursPerDay
                 ELSE -((-h) \div HoursPerDay))

\* (Timedelta).dt.days: whole days, rounded towards minus infinity; NaT -> NaN
DaysOf(dis, adm) ==
    IF dis.isna \/ adm.isna THEN NaN
    ELSE LET h == dis.v - adm.v
         IN  Val(IF h >= 0 THEN h \div HoursPerDay
                 ELSE -((-h + HoursPerDay - 1) \div HoursPerDay))

\* variant: no clipping
ClipNothing(x) == x

\* Series.clip(lower=0): NaN stays NaN
ClipLower0(x) == IF x.isna THEN x ELSE Val(IF x.v < 0 THEN 0 ELSE x.v)

(* ----------------------------- config --------------------------------- *)
AbsPath == "C:/Users/ag5488/Documents/VSC/Healthcare_Data_Analysis_Project/data/hospital_data.csv"
RelPath == "data/hospital_data.csv"

\* the absolute path if ./notebooks exists, the relative one otherwise
DATA_PATH == IF env.notebooks THEN AbsPath ELSE RelPath
FIG_DIR == "reports/figs"

EmptyTable == [index |-> {}, columns |-> <<>>, cell |-> <<>>]
NoFrame == [columns |-> {}, rows |-> <<>>]

(* ----------------------------- helpers -------------------------------- *)
h1(out, title) == Append(out, <<"h1", title>>)
h2(out, title) == Append(out, <<"h2", title>>)

fmt_saved(out, name) == Append(out, <<"saved", name>>)

(* ----------------------------- inputs --------------------------------- *)
BaseColumns == {"Patient_ID", "Department", "Cost", "Readmission"}
OptionalColumns == {"Admission_Date", "Discharge_Date", "Length_of_Stay"}

\* raw CSV cells
RawAdm == {"n/a", "2024-01-02 12:00"}
RawDis == {"", "2024-01-01", "2024-01-05"}
RawLOS == {NaN, Val(-1), Val(5)}
RawDept == {"ER", "ICU"}
RawReadm == {"", "Yes", "No", "Maybe"}

SeqsUpTo(S, n) == UNION {[1..k -> S] : k \in 1..n}

\* rows of a table with optional columns opt: a column that is absent has
\* no cells (represented by the missing marker and never read)
RowsLOS(opt) ==
    [Department : {"ER"}, Readmission : {"Yes"},
     Admission_Date : IF "Admission_Date" \in opt THEN RawAdm ELSE {""},
     Discharge_Date : IF "Discharge_Date" \in opt THEN RawDis ELSE {""},
     Length_of_Stay : IF "Length_of_Stay" \in opt THEN RawLOS ELSE {NaN}]

RowsReadm ==
    [Department : RawDept, Readmission : RawReadm,
     Admission_Date : {"2024-01-02 12:00"}, Discharge_Date : {"2024-01-05"},
     Length_of_Stay : {Val(5)}]

\* the dataset file: nowhere, or at one of the two paths
CsvFiles ==
    {[exists |-> FALSE, path |-> "", columns |-> {}, rows |-> <<>>]}
    \cup UNION {[exists : {TRUE}, path : {AbsPath, RelPath},
                 columns : {BaseColumns \cup opt},
                 rows : SeqsUpTo(RowsLOS(opt), MaxRowsLOS)]
                : opt \in SUBSET OptionalColumns}
    \cup [exists : {TRUE}, path : {AbsPath, RelPath},
          columns : {BaseColumns \cup OptionalColumns},
          rows : SeqsUpTo(RowsReadm, MaxRowsReadm)]

\* the working directory the program is started in
Environments == [notebooks : BOOLEAN, figsCreatable : BOOLEAN]

\* path.exists()
PathExists(path) == csv.exists /\ csv.path = path

(* --------------------------- process start ---------------------------- *)
\* a fresh interpreter: nothing loaded, nothing printed, no figure open
Init ==
    /\ env \in Environments
    /\ csv \in CsvFiles
    /\ df = NoFrame
    /\ pc = "import"
    /\ step = "body"
    /\ printed = <<>>
    /\ figDir = {}
    /\ openCharts = 0
    /\ exitCode = -1
    /\ raised = "none"
    /\ runs = 1
    /\ by_dept = EmptyTable

\* an uncaught exception: traceback, interpreter exits with status 1
Raise(exc) ==
    /\ pc' = "exited"
    /\ step' = "body"
    /\ exitCode' = 1
    /\ raised' = exc

Goto(next) ==
    /\ pc' = next
    /\ step' = "body"
    /\ UNCHANGED <<exitCode, raised>>

\* module import: FIG_DIR.mkdir(parents=True, exist_ok=True) raises an
\* OSError (a file in the way, no permission) before main is entered
module_import ==
    /\ pc = "import"
    /\ IF env.figsCreatable THEN Goto("load_data") ELSE Raise("OSError")
    /\ UNCHANGED <<env, csv, df, printed, figDir, openCharts, runs, by_dept>>

(* ------------------------------- load --------------------------------- *)
ParseDates(columns, rows) ==
    [i \in DOMAIN rows |->
        [rows[i] EXCEPT
            !.Admission_Date = IF "Admission_Date" \in columns
                               THEN to_datetime(rows[i].Admission_Date) ELSE NaN,
            !.Discharge_Date = IF "Discharge_Date" \in columns
                               THEN to_datetime(rows[i].Discharge_Date) ELSE NaN]]

load_data ==
    /\ pc = "load_data"
    /\ IF ~PathExists(DATA_PATH)
       THEN /\ printed' = printed \o <<<<"oops", DATA_PATH>>, <<"hint", "/data">>>>
            /\ pc' = "exited"
            /\ step' = "body"
            /\ exitCode' = 1
            /\ UNCHANGED <<df, raised>>
       ELSE /\ df' = [columns |-> csv.columns,
                      rows |-> ParseDates(csv.columns, csv.rows)]
            /\ Goto("derive")
            /\ UNCHANGED printed
    /\ UNCHANGED <<env, csv, figDir, openCharts, runs, by_dept>>

(* ------------------------ derivation (in main) ------------------------ *)
HasNaN(rows, col) == \E i \in DOMAIN rows : rows[i][col].isna

calc_los(rows) ==
    [i \in DOMAIN rows |-> DaysOf(rows[i].Discharge_Date, rows[i].Admission_Date)]

Rewrites(frame) ==
    /\ "Admission_Date" \in frame.columns
    /\ "Discharge_Date" \in frame.columns
    /\ \/ "Length_of_Stay" \notin frame.columns
       \/ HasNaN(frame.rows, "Length_of_Stay")

Derive(frame) ==
    IF Rewrites(frame)
    THEN [columns |-> frame.columns \cup {"Length_of_Stay"},
          rows |-> [i \in DOMAIN frame.rows |->
                      [frame.rows[i] EXCEPT
                          !.Length_of_Stay = ClipLower0(calc_los(frame.rows)[i])]]]
    ELSE frame

main_derive ==
    /\ pc = "derive"
    /\ df' = Derive(df)
    /\ Goto("basic_overview")
    /\ UNCHANGED <<env, csv, printed, figDir, openCharts, runs, by_dept>>

(* ----------------------------- analyzers ------------------------------ *)
basic_overview ==
    /\ pc = "basic_overview"
    /\ printed' = h2(h2(h1(printed, "Dataset Overview"), "Columns"), "Sample (first 5)")
    /\ Goto("summary_stats")
    /\ UNCHANGED <<env, csv, df, figDir, openCharts, runs, by_dept>>

\* df[["Length_of_Stay", "Cost"]] raises KeyError when a column is absent
summary_stats ==
    /\ pc = "summary_stats"
    /\ IF "Length_of_Stay" \notin df.columns
       THEN /\ printed' = h1(printed, "Summary Statistics")
            /\ Raise("KeyError")
       ELSE /\ printed' = h2(h1(printed, "Summary Statistics"), "Missing Values (count)")
            /\ Goto("admissions_by_department")
    /\ UNCHANGED <<env, csv, df, figDir, openCharts, runs, by_dept>>

\* Series/DataFrame.plot: a new figure becomes the current figure
OpenChart == openCharts' = openCharts + 1

\* plt.close(): closes the current figure, if there is one
CloseChart == openCharts' = IF openCharts > 0 THEN openCharts - 1 ELSE 0

\* variant: a later run does not overwrite the monthly chart but picks a
\* fresh name
OutPathFresh(filename) ==
    IF filename = "monthly_admissions.png" /\ runs > 1
    THEN "monthly_admissions_1.png" ELSE filename

\* FIG_DIR / filename
OutPath(filename) == filename

\* plt.tight_layout(); plt.savefig(out); print("[saved] ..."): the image
\* replaces any file of that name, or layout/saving raises (e.g. OSError)
SaveFig(filename) ==
    \E ok \in BOOLEAN :
        IF ok
        THEN /\ figDir' = {f \in figDir : f.name # OutPath(filename)}
                            \cup {[name |-> OutPath(filename), run |-> runs]}
             /\ printed' = fmt_saved(printed, OutPath(filename))
             /\ step' = "close"
             /\ UNCHANGED <<pc, exitCode, raised>>
        ELSE /\ Raise("OSError")
             /\ UNCHANGED <<figDir, printed>>

admissions_by_department ==
    /\ pc = "admissions_by_department"
    /\ step = "body"
    /\ printed' = h1(printed, "Admissions by Department")
    /\ OpenChart
    /\ step' = "savefig"
    /\ UNCHANGED <<env, csv, df, pc, figDir, exitCode, raised, runs, by_dept>>

avg_cost_per_department ==
    /\ pc = "avg_cost_per_department"
    /\ step = "body"
    /\ printed' = h1(printed, "Average Cost per Department")
    /\ OpenChart
    /\ step' = "savefig"
    /\ UNCHANGED <<env, csv, df, pc, figDir, exitCode, raised, runs, by_dept>>

(* readmission_rates: the per-department table *)
Recorded(rows, d) ==
    {i \in DOMAIN rows : rows[i].Department = d /\ rows[i].Readmission # ""}

GroupCount(rows, d, v) ==
    Cardinality({i \in Recorded(rows, d) : rows[i].Readmission = v})

\* variant: the denominator counts the group's missing values too
GroupTotalAll(rows, d) ==
    Cardinality({i \in DOMAIN rows : rows[i].Department = d})

\* denominator of value_counts(normalize=True): the group's non-missing values
GroupTotal(rows, d) == Cardinality(Recorded(rows, d))

\* round to the nearest integer, ties to the even one (numpy rounding)
RoundHalfEven(num, den) ==
    LET q == num \div den
        r == num % den
    IN  IF 2 * r < den THEN q
        ELSE IF 2 * r > den THEN q + 1
        ELSE IF q % 2 = 0 THEN q ELSE q + 1

\* a percentage rounded to one decimal, in tenths of a percent
PctTenths(count, total) == RoundHalfEven(1000 * count, total)

\* groupby(...).value_counts(normalize=True).mul(100) ... pivot ... fillna(0).round(1)
Pivot(rows) ==
    LET depts == {rows[i].Department : i \in DOMAIN rows}
        index == {d \in depts : Recorded(rows, d) # {}}
        cols  == {rows[i].Readmission : i \in UNION {Recorded(rows, d) : d \in index}}
    IN  [index |-> index, columns |-> cols,
         cell |-> [k \in index \X cols |->
                     IF GroupCount(rows, k[1], k[2]) = 0 THEN 0
                     ELSE PctTenths(GroupCount(rows, k[1], k[2]), GroupTotal(rows, k[1]))]]

\* for col in ["No", "Yes"]: add the column as 0.0 if absent; then select both
ByDept(rows) ==
    LET p == Pivot(rows)
    IN  [index |-> p.index, columns |-> <<"No", "Yes">>,
         cell |-> [k \in p.index \X {"No", "Yes"} |->
                     IF k[2] \in p.columns THEN p.cell[k] ELSE 0]]

\* plotting an empty Series as a bar chart raises (IndexError) inside
\* pandas; whether the figure it had started is left open depends on the
\* pandas version
readmission_rates ==
    /\ pc = "readmission_rates"
    /\ step = "body"
    /\ printed' = h2(h1(printed, "Readmission Rates"), "By Department:")
    /\ by_dept' = ByDept(df.rows)
    /\ IF ByDept(df.rows).index = {}
       THEN /\ Raise("IndexError")
            /\ openCharts' \in {openCharts, openCharts + 1}
       ELSE /\ OpenChart
            /\ step' = "savefig"
            /\ UNCHANGED <<pc, exitCode, raised>>
    /\ UNCHANGED <<env, csv, df, figDir, runs>>

BarAnalyzers == {"admissions_by_department", "avg_cost_per_department",
                 "readmission_rates"}

BarFile(analyzer) ==
    CASE analyzer = "admissions_by_department" -> "admissions_by_department.png"
      [] analyzer = "avg_cost_per_department"  -> "avg_cost_by_department.png"
      [] analyzer = "readmission_rates"        -> "readmission_yes_by_department.png"

NextAfter(analyzer) ==
    CASE analyzer = "admissions_by_department" -> "avg_cost_per_department"
      [] analyzer = "avg_cost_per_department"  -> "readmission_rates"
      [] analyzer = "readmission_rates"        -> "los_vs_cost"
      [] analyzer = "los_vs_cost"              -> "monthly_admissions"
      [] analyzer = "monthly_admissions"       -> "done"

save_bar_savefig ==
    /\ pc \in BarAnalyzers
    /\ step = "savefig"
    /\ SaveFig(BarFile(pc))
    /\ UNCHANGED <<env, csv, df, openCharts, runs, by_dept>>

save_bar_close ==
    /\ pc \in BarAnalyzers
    /\ step = "close"
    /\ CloseChart
    /\ Goto(NextAfter(pc))
    /\ UNCHANGED <<env, csv, df, printed, figDir, runs, by_dept>>

los_vs_cost ==
    /\ pc = "los_vs_cost"
    /\ step = "body"
    /\ printed' = h1(printed, "Length of Stay vs Cost")
    /\ IF "Length_of_Stay" \notin df.columns
       THEN /\ Raise("KeyError")
            /\ UNCHANGED openCharts
       ELSE /\ OpenChart
            /\ step' = "savefig"
            /\ UNCHANGED <<pc, exitCode, raised>>
    /\ UNCHANGED <<env, csv, df, figDir, runs, by_dept>>

los_vs_cost_savefig ==
    /\ pc = "los_vs_cost"
    /\ step = "savefig"
    /\ SaveFig("length_of_stay_vs_cost.png")
    /\ UNCHANGED <<env, csv, df, openCharts, runs, by_dept>>

los_vs_cost_close ==
    /\ pc = "los_vs_cost"
    /\ step = "close"
    /\ CloseChart
    /\ Goto(NextAfter(pc))
    /\ UNCHANGED <<env, csv, df, printed, figDir, runs, by_dept>>

\* variant: only the column's absence is tested
MonthlySkipsColumnOnly(frame) == "Admission_Date" \notin frame.columns

\* "Admission_Date" not in df.columns or df["Admission_Date"].isna().all()
MonthlySkips(frame) ==
    \/ "Admission_Date" \notin frame.columns
    \/ \A i \in DOMAIN frame.rows : frame.rows[i].Admission_Date.isna

monthly_admissions ==
    /\ pc = "monthly_admissions"
    /\ step = "body"
    /\ IF MonthlySkips(df)
       THEN /\ Goto(NextAfter(pc))
            /\ UNCHANGED <<printed, openCharts>>
       ELSE /\ printed' = h1(printed, "Monthly Admissions Trend")
            /\ OpenChart
            /\ step' = "savefig"
            /\ UNCHANGED <<pc, exitCode, raised>>
    /\ UNCHANGED <<env, csv, df, figDir, runs, by_dept>>

monthly_admissions_savefig ==
    /\ pc = "monthly_admissions"
    /\ step = "savefig"
    /\ SaveFig("monthly_admissions.png")
    /\ UNCHANGED <<env, csv, df, openCharts, runs, by_dept>>

monthly_admissions_close ==
    /\ pc = "monthly_admissions"
    /\ step = "close"
    /\ CloseChart
    /\ Goto(NextAfter(pc))
    /\ UNCHANGED <<env, csv, df, printed, figDir, runs, by_dept>>

\* h1("Done"); print(...); main returns and the interpreter exits with 0
main_done ==
    /\ pc = "done"
    /\ printed' = Append(h1(printed, "Done"), <<"figures", FIG_DIR>>)
    /\ pc' = "exited"
    /\ exitCode' = 0
    /\ UNCHANGED <<env, csv, df, step, figDir, openCharts, raised, runs, by_dept>>

\* the program is started again on the same input after a complete run: a
\* new process, the files of reports/figs stay
run_again ==
    /\ pc = "exited"
    /\ exitCode = 0
    /\ runs < MaxRuns
    /\ runs' = runs + 1
    /\ df' = NoFrame
    /\ pc' = "import"
    /\ step' = "body"
    /\ printed' = <<>>
    /\ openCharts' = 0
    /\ exitCode' = -1
    /\ raised' = "none"
    /\ by_dept' = EmptyTable
    /\ UNCHANGED <<env, csv, figDir>>

Next ==
    \/ module_import
    \/ load_data
    \/ main_derive
    \/ basic_overview
    \/ summary_stats
    \/ admissions_by_department
    \/ avg_cost_per_department
    \/ readmission_rates
    \/ save_bar_savefig
    \/ save_bar_close
    \/ los_vs_cost
    \/ los_vs_cost_savefig
    \/ los_vs_cost_close
    \/ monthly_admissions
    \/ monthly_admissions_savefig
    \/ monthly_admissions_close
    \/ main_done
    \/ run_again

Spec == Init /\ [][Next]_vars

(* ====================================================================== *)
(* Properties                                                             *)
(* ====================================================================== *)
Terminated == pc = "exited"
Derived == df # NoFrame /\ pc # "derive"
InputMissing == ~PathExists(DATA_PATH)
DiagnosticPrinted == \E i \in DOMAIN printed : printed[i] = <<"oops", DATA_PATH>>
Sections == {printed[i][2] : i \in {j \in DOMAIN printed : printed[j][1] = "h1"}}
SavedCount(name) == Cardinality({i \in DOMAIN printed : printed[i] = <<"saved", name>>})
FigNames == {f.name : f \in figDir}
BothDateColumns == {"Admission_Date", "Discharge_Date"} \subseteq csv.columns
TypeOK ==
    /\ pc \in {"import", "load_data", "derive", "basic_overview", "summary_stats",
               "admissions_by_department", "avg_cost_per_department",
               "readmission_rates", "los_vs_cost", "monthly_admissions",
               "done", "exited"}
    /\ step \in {"body", "savefig", "close"}
    /\ exitCode \in {-1, 0, 1}
    /\ runs \in 1..MaxRuns
    /\ openCharts \in 0..2

\* C1 as stated: in every run in which the input file does not exist at
\* the configured path, load_data prints a diagnostic with the expected path
\* and the process ends with status 1 before the derivation and before any
\* analyzer (no section, no image); when the file exists and no step fails,
\* the run ends after the "Done" section with status 0.
C1_Original ==
    /\ InputMissing => pc \in {"import", "load_data", "exited"}
    /\ (Terminated /\ InputMissing) =>
          /\ exitCode = 1
          /\ DiagnosticPrinted
          /\ Sections = {}
          /\ figDir = {}
          /\ openCharts = 0
          /\ df = NoFrame
    /\ (Terminated /\ ~InputMissing /\ raised = "none") =>
          /\ exitCode = 0
          /\ "Done" \in Sections
          /\ printed[Len(printed) - 1] = <<"h1", "Done">>

(* ---- Length_of_Stay derivation ---- *)
\* the input's dates as timestamps, and the day difference stated directly:
\* the integer d with d days <= discharge - admission < d + 1 days
AdmOf(i) == to_datetime(csv.rows[i].Admission_Date)
DisOf(i) == to_datetime(csv.rows[i].Discharge_Date)
BothParse(i) == ~AdmOf(i).isna /\ ~DisOf(i).isna
WholeDays(i) ==
    CHOOSE d \in -10..10 :
        /\ d * HoursPerDay <= DisOf(i).v - AdmOf(i).v
        /\ DisOf(i).v - AdmOf(i).v < (d + 1) * HoursPerDay
Max0(n) == IF n < 0 THEN 0 ELSE n
AllDatesParse == BothDateColumns /\ \A i \in DOMAIN csv.rows : BothParse(i)
InputLOSAbsent == "Length_of_Stay" \notin csv.columns
InputLOSHasMissing ==
    /\ "Length_of_Stay" \in csv.columns
    /\ \E i \in DOMAIN csv.rows : csv.rows[i].Length_of_Stay.isna
InputLOSComplete ==
    /\ "Length_of_Stay" \in csv.columns
    /\ \A i \in DOMAIN csv.rows : ~csv.rows[i].Length_of_Stay.isna

\* C2 as stated: with both date columns fully parseable, after the
\* derivation every row's Length_of_Stay is max(0, whole days between the
\* dates), whatever the column held before (absent, with gaps, or complete).
C2_Original ==
    (Derived /\ AllDatesParse) =>
        \A i \in DOMAIN df.rows : df.rows[i].Length_of_Stay = Val(Max0(WholeDays(i)))

\* C2 amended: with both date columns fully parseable, after the derivation
\* every row's Length_of_Stay is max(0, whole days between the dates) when
\* the input's Length_of_Stay column is absent or has a missing value; a
\* fully populated input column is kept as it is.
C2_DerivedEqualsDays ==
    (Derived /\ AllDatesParse) =>
        /\ (InputLOSAbsent \/ InputLOSHasMissing) =>
              /\ "Length_of_Stay" \in df.columns
              /\ \A i \in DOMAIN df.rows :
                    df.rows[i].Length_of_Stay = Val(Max0(WholeDays(i)))
        /\ InputLOSComplete =>
              \A i \in DOMAIN df.rows :
                    df.rows[i].Length_of_Stay = csv.rows[i].Length_of_Stay

C2_Witness ==
    /\ Derived /\ AllDatesParse /\ InputLOSHasMissing
    /\ \E i \in DOMAIN df.rows : WholeDays(i) = 2 /\ df.rows[i].Length_of_Stay = Val(2)
    /\ \E i \in DOMAIN df.rows : WholeDays(i) < 0 /\ df.rows[i].Length_of_Stay = Val(0)

\* C3 as stated: for every input with both date columns, with or without a
\* Length_of_Stay column, from the end of the derivation on (so in the data
\* every analyzer sees) every row whose two dates parsed has
\* Length_of_Stay >= 0.
C3_Original ==
    (Derived /\ BothDateColumns) =>
        \A i \in DOMAIN df.rows :
            BothParse(i) => /\ ~df.rows[i].Length_of_Stay.isna
                            /\ df.rows[i].Length_of_Stay.v >= 0

\* C3 amended: the same, for every input with both date columns whose
\* Length_of_Stay column is absent or has a missing value; when the input
\* column is fully populated it is left as it was, negative values included.
C3_NonNegativeWhenRewritten ==
    (Derived /\ BothDateColumns) =>
        /\ (InputLOSAbsent \/ InputLOSHasMissing) =>
              \A i \in DOMAIN df.rows :
                  BothParse(i) => /\ ~df.rows[i].Length_of_Stay.isna
                                  /\ df.rows[i].Length_of_Stay.v >= 0
        /\ InputLOSComplete =>
              \A i \in DOMAIN df.rows :
                  df.rows[i].Length_of_Stay = csv.rows[i].Length_of_Stay

C3_Witness ==
    /\ pc = "monthly_admissions"
    /\ BothDateColumns /\ InputLOSHasMissing
    /\ \E i \in DOMAIN df.rows :
          /\ BothParse(i) /\ WholeDays(i) < 0
          /\ csv.rows[i].Length_of_Stay = Val(-1)
          /\ df.rows[i].Length_of_Stay = Val(0)

\* C4 as stated: whenever the derivation rewrites the column, every row in
\* which a date is unparseable or missing keeps the Length_of_Stay value it
\* had before (a value stays that value, missing stays missing).
C4_Original ==
    (Derived /\ BothDateColumns /\ (InputLOSAbsent \/ InputLOSHasMissing)) =>
        \A i \in DOMAIN df.rows :
            ~BothParse(i) => df.rows[i].Length_of_Stay = csv.rows[i].Length_of_Stay

(* ---- readmission_rates ---- *)
TablePrinted == by_dept # EmptyTable
DeptsOf == {df.rows[i].Department : i \in DOMAIN df.rows}
ValuesIn(d) ==
    {df.rows[i].Readmission :
        i \in {j \in DOMAIN df.rows : df.rows[j].Department = d
                                       /\ df.rows[j].Readmission # ""}}
Occurs(d, c) ==
    \E i \in DOMAIN df.rows : df.rows[i].Department = d /\ df.rows[i].Readmission = c
Dist(a, b) == IF a >= b THEN a - b ELSE b - a

\* C5 as stated: the table printed by readmission_rates has exactly the
\* columns "No" and "Yes" and one row for every department of the dataset,
\* and a category that does not occur in a department is 0.0% there, also
\* for a department without any recorded Readmission value.  (Runs in which
\* the chart that follows the table cannot be drawn are left aside.)
C5_Original ==
    (TablePrinted /\ raised = "none") =>
        /\ by_dept.columns = <<"No", "Yes">>
        /\ by_dept.index = DeptsOf
        /\ \A d \in DeptsOf : \A c \in {"No", "Yes"} :
              ~Occurs(d, c) => by_dept.cell[<<d, c>>] = 0

\* C6 as stated: in every row of the printed table the "Yes" and the "No"
\* percentage (tenths of a percent) add up to 100.0 within 0.1, whatever
\* values the department's Readmission cells hold.
C6_Original ==
    TablePrinted =>
        \A d \in by_dept.index :
            Dist(by_dept.cell[<<d, "Yes">>] + by_dept.cell[<<d, "No">>], 1000) <= 1

\* C6 amended: in every row of the printed table whose department has only
\* "Yes" and "No" among its recorded Readmission values, the two
\* percentages add up to 100.0 within 0.1.
C6_YesNoSumTo100 ==
    TablePrinted =>
        \A d \in by_dept.index :
            ValuesIn(d) \subseteq {"Yes", "No"} =>
                Dist(by_dept.cell[<<d, "Yes">>] + by_dept.cell[<<d, "No">>], 1000) <= 1

C6_Witness ==
    /\ TablePrinted
    /\ \E d \in by_dept.index :
          /\ ValuesIn(d) = {"Yes", "No"}
          /\ by_dept.cell[<<d, "Yes">>] = 333
          /\ by_dept.cell[<<d, "No">>] = 667

(* ---- monthly_admissions ---- *)
AdmissionAllMissing ==
    \/ "Admission_Date" \notin df.columns
    \/ \A i \in DOMAIN df.rows : df.rows[i].Admission_Date.isna

\* C7: monthly_admissions does nothing at all when there is no
\* Admission_Date column or every value is missing (no section, no file, no
\* chart); otherwise, when it returns, it has printed the section and
\* written monthly_admissions.png exactly once.
C7_MonthlyConditional ==
    /\ [][(pc = "monthly_admissions" /\ step = "body" /\ AdmissionAllMissing) =>
             /\ pc' = "done"
             /\ printed' = printed
             /\ figDir' = figDir
             /\ openCharts' = openCharts]_vars
    /\ []((pc = "done" /\ AdmissionAllMissing) =>
             /\ "Monthly Admissions Trend" \notin Sections
             /\ SavedCount("monthly_admissions.png") = 0
             /\ [name |-> "monthly_admissions.png", run |-> runs] \notin figDir)
    /\ []((pc = "done" /\ ~AdmissionAllMissing) =>
             /\ "Monthly Admissions Trend" \in Sections
             /\ SavedCount("monthly_admissions.png") = 1
             /\ [name |-> "monthly_admissions.png", run |-> runs] \in figDir)

C7_Witness ==
    /\ pc = "done"
    /\ "Admission_Date" \in df.columns
    /\ \A i \in DOMAIN df.rows : df.rows[i].Admission_Date.isna
    /\ "Monthly Admissions Trend" \notin Sections

(* ---- whole run ---- *)
SixSections == {"Dataset Overview", "Summary Statistics", "Admissions by Department",
                "Average Cost per Department", "Readmission Rates",
                "Length of Stay vs Cost"}

\* C8 as stated: for every existing input without the optional date columns
\* (one or both), with or without a Length_of_Stay column, no step fails:
\* the six other analyzers run, the run reaches "Done" and exits with 0.
\* (Runs ended by a failure to create the output directory or to write an
\* image are left aside.)
C8_Original ==
    (Terminated /\ PathExists(DATA_PATH) /\ ~BothDateColumns /\ raised # "OSError") =>
        /\ raised = "none"
        /\ exitCode = 0
        /\ SixSections \subseteq Sections
        /\ "Done" \in Sections

FiveFiles == {"admissions_by_department.png", "avg_cost_by_department.png",
              "readmission_yes_by_department.png", "length_of_stay_vs_cost.png",
              "monthly_admissions.png"}

\* what one complete run on the input writes
WrittenByOneRun ==
    (FiveFiles \ {"monthly_admissions.png"})
    \cup (IF \E i \in DOMAIN csv.rows :
                "Admission_Date" \in csv.columns /\ ~AdmOf(i).isna
          THEN {"monthly_admissions.png"} ELSE {})

\* C9: after any number of complete runs on the same input, the files of
\* reports/figs are the files one run writes, all among the five fixed
\* names, and each was written by the most recent run.
C9_RerunIdempotent ==
    (Terminated /\ exitCode = 0) =>
        /\ FigNames = WrittenByOneRun
        /\ FigNames \subseteq FiveFiles
        /\ \A f \in figDir : f.run = runs
        /\ Cardinality(figDir) = Cardinality(FigNames)

C9_Witness ==
    /\ Terminated /\ exitCode = 0 /\ runs = 2
    /\ FigNames = FiveFiles
    /\ \A f \in figDir : f.run = 2

\* C10 as stated: every chart opened by an analyzer is closed by it on every
\* path, also when laying out or saving the image fails: never more than
\* one chart is open, and none is open between two analyzers or when the
\* run has ended.
C10_Original ==
    /\ openCharts <= 1
    /\ ((step = "body" \/ Terminated) /\ raised \in {"none", "OSError"}) =>
          openCharts = 0

====
